---- MODULE Spec2Model ----
(***************************************************************************)
(* Model of the command-line assistant bot of src/main.py: the input loop  *)
(* (CliApp), the dispatcher (AssistantBot) and the contact store           *)
(* (PhoneBook).                                                            *)
(*                                                                         *)
(* A Python str is a sequence of pieces.  Text that comes from the user is *)
(* held one character per piece, so that lower(), split() and the regular  *)
(* expression work on characters; a literal of the program that is only    *)
(* ever printed is held as one piece.  String concatenation and f-strings  *)
(* are \o.                                                                 *)
(***************************************************************************)
EXTENDS Integers, Sequences, FiniteSets, TLC

\* ------------------------------------------------------------ bounds
\* How many names of NameList the user may type.
NumNames == 3
\* Longest run of digits in the phone strings handed to verify_phone alone.
MaxRun == 13

\* ------------------------------------------------------------ characters
Digits == {"0", "1", "2", "3", "4", "5", "6", "7", "8", "9"}

Whitespace == {" ", "\t"}

UpperCase == <<"A", "B", "C", "D", "E", "F", "G", "H", "I", "J", "K", "L", "M",
               "N", "O", "P", "Q", "R", "S", "T", "U", "V", "W", "X", "Y", "Z">>

LowerCase == <<"a", "b", "c", "d", "e", "f", "g", "h", "i", "j", "k", "l", "m",
               "n", "o", "p", "q", "r", "s", "t", "u", "v", "w", "x", "y", "z">>

\* str.lower() on one character.
lower_char(c) ==
    IF \E i \in 1..Len(UpperCase) : UpperCase[i] = c
    THEN LowerCase[CHOOSE i \in 1..Len(UpperCase) : UpperCase[i] = c]
    ELSE c

\* str.lower(): input().lower() of run.
lower(s) == [i \in 1..Len(s) |-> lower_char(s[i])]

\* The index of the first character of s at or after i that is (sp = TRUE)
\* or is not (sp = FALSE) whitespace; Len(s) + 1 when there is none.
RECURSIVE scan(_, _, _)
scan(s, i, sp) ==
    IF i > Len(s) \/ ((s[i] \in Whitespace) = sp) THEN i ELSE scan(s, i + 1, sp)

\* str.split() with no separator: the maximal runs of non-whitespace, in
\* order; leading, trailing and repeated whitespace yields no empty token.
RECURSIVE split_from(_, _)
split_from(s, i) ==
    LET b == scan(s, i, FALSE)
        e == scan(s, b, TRUE)
    IN  IF b > Len(s) THEN <<>>
        ELSE <<SubSeq(s, b, e - 1)>> \o split_from(s, e)

split(s) == split_from(s, 1)

\* ------------------------------------------------------------ outcomes
\* The value None, and a str value.
None == [none |-> TRUE, text |-> <<>>]

Str(t) == [none |-> FALSE, text |-> t]

\* Python truthiness of a handler result (`if result:`).
Truthy(v) == ~v.none /\ v.text # <<>>

\* The outcome of a call: it returned ret, or raised exc with message err;
\* phones is the store the call leaves behind.
Return(v, ph) == [exc |-> "none", err |-> <<>>, ret |-> v, phones |-> ph]

Raise(e, msg, ph) == [exc |-> e, err |-> msg, ret |-> None, phones |-> ph]

\* CliApp.parse_command: split, ValueError() on no token, else
\* (first token, the other tokens).
parse_command(user_input) ==
    LET toks == split(user_input)
    IN  IF Len(toks) = 0
        THEN [exc |-> "ValueError", command |-> <<>>, args |-> <<>>]
        ELSE [exc |-> "none", command |-> toks[1], args |-> Tail(toks)]

\* ------------------------------------------------------------ PhoneBook
\* The pattern of verify_phone, r"(\+?\d{12}|\d{10})": a list of
\* alternatives, each a list of items (a character class repeated min..max
\* times).
Pattern ==
    << << [cls |-> "plus",  min |-> 0,  max |-> 1],
          [cls |-> "digit", min |-> 12, max |-> 12] >>,
       << [cls |-> "digit", min |-> 10, max |-> 10] >> >>

InClass(c, cls) == IF cls = "digit" THEN c \in Digits ELSE c = "+"

\* The positions at which a match of `items`, started at pos in s, can end.
RECURSIVE match_items(_, _, _)
match_items(items, s, pos) ==
    IF items = <<>> THEN {pos}
    ELSE LET it == Head(items)
             counts == {n \in it.min..it.max :
                           /\ pos + n - 1 <= Len(s)
                           /\ \A k \in pos..(pos + n - 1) : InClass(s[k], it.cls)}
         IN  UNION {match_items(Tail(items), s, pos + n) : n \in counts}

\* re.match(pattern, s): the pattern matches at the beginning of s; what
\* follows the match is not looked at.
match_full(pat, s) ==
    \E a \in 1..Len(pat) : (Len(s) + 1) \in match_items(pat[a], s, 1)

match(pat, s) == \E a \in 1..Len(pat) : match_items(pat[a], s, 1) # {}

\* PhoneBook.verify_phone: raises ValueError unless the pattern matches.
verify_phone_fullmatch(phone) ==
    IF ~match_full(Pattern, phone)
    THEN [exc |-> "ValueError", err |-> <<"Invalid phone format">>]
    ELSE [exc |-> "none", err |-> <<>>]

verify_phone(phone) ==
    IF ~match(Pattern, phone)
    THEN [exc |-> "ValueError", err |-> <<"Invalid phone format">>]
    ELSE [exc |-> "none", err |-> <<>>]

\* self.phones is a dict: a sequence of (name, phone) items in insertion
\* order.  `name in self.phones`:
dict_contains(ph, name) == \E i \in 1..Len(ph) : ph[i].name = name

\* self.phones[name], for a name that is present.
dict_get(ph, name) == ph[CHOOSE i \in 1..Len(ph) : ph[i].name = name].phone

\* self.phones[name] = phone: a present key keeps its position, a new key
\* goes to the end.
dict_set(ph, name, phone) ==
    IF dict_contains(ph, name)
    THEN [i \in 1..Len(ph) |->
             IF ph[i].name = name THEN [name |-> name, phone |-> phone] ELSE ph[i]]
    ELSE Append(ph, [name |-> name, phone |-> phone])

AlreadyMsg ==
    <<"This name is already in your phonebook. If you want to change the phone number, type 'change'.">>

NotInMsg ==
    <<"This name is not in your phonebook. If you want to add it, type 'add'.">>

\* PhoneBook.add_contact
add_contact_store_first(ph, name, phone) ==
    LET v == verify_phone(phone)
    IN  IF ~dict_contains(ph, name)
        THEN IF v.exc # "none" THEN Raise(v.exc, v.err, dict_set(ph, name, phone))
             ELSE Return(None, dict_set(ph, name, phone))
        ELSE IF v.exc # "none" THEN Raise(v.exc, v.err, ph)
             ELSE Raise("ValueError", AlreadyMsg, ph)

add_contact_overwrite(ph, name, phone) ==
    LET v == verify_phone(phone)
    IN  IF v.exc # "none" THEN Raise(v.exc, v.err, ph)
        ELSE Return(None, dict_set(ph, name, phone))

add_contact(ph, name, phone) ==
    LET v == verify_phone(phone)
    IN  IF v.exc # "none" THEN Raise(v.exc, v.err, ph)
        ELSE IF ~dict_contains(ph, name)
        THEN Return(None, dict_set(ph, name, phone))
        ELSE Raise("ValueError", AlreadyMsg, ph)

\* PhoneBook.change_contact
change_contact_reinsert(ph, name, phone) ==
    LET v == verify_phone(phone)
    IN  IF v.exc # "none" THEN Raise(v.exc, v.err, ph)
        ELSE IF dict_contains(ph, name)
        THEN Return(None, dict_set(SelectSeq(ph, LAMBDA e : e.name # name), name, phone))
        ELSE Raise("ValueError", NotInMsg, ph)

change_contact_upsert(ph, name, phone) ==
    LET v == verify_phone(phone)
    IN  IF v.exc # "none" THEN Raise(v.exc, v.err, ph)
        ELSE Return(None, dict_set(ph, name, phone))

change_contact(ph, name, phone) ==
    LET v == verify_phone(phone)
    IN  IF v.exc # "none" THEN Raise(v.exc, v.err, ph)
        ELSE IF dict_contains(ph, name)
        THEN Return(None, dict_set(ph, name, phone))
        ELSE Raise("ValueError", NotInMsg, ph)

ALL == <<"a", "l", "l">>

NoContactsMsg == <<"You do not have any contacts yet.">>

\* One line of the listing: f"Name: {name}, phone: {phone}\n".
listing_line(name, phone) == <<"Name: ">> \o name \o <<", phone: ">> \o phone \o <<"\n">>

\* The loop over self.phones.items() that appends one line per item.
RECURSIVE listing(_, _)
listing(ph, i) ==
    IF i > Len(ph) THEN <<>>
    ELSE listing_line(ph[i].name, ph[i].phone) \o listing(ph, i + 1)

\* repr() of a str key, as str(KeyError(key)) gives it.
repr(key) == <<"'">> \o key \o <<"'">>

\* PhoneBook.show_phone
show_phone(ph, name) ==
    IF name = ALL
    THEN IF ph # <<>> THEN Return(Str(listing(ph, 1)), ph)
         ELSE Return(Str(NoContactsMsg), ph)
    ELSE IF dict_contains(ph, name) THEN Return(Str(dict_get(ph, name)), ph)
         ELSE Raise("KeyError", repr(name), ph)

\* ------------------------------------------------------------ AssistantBot
\* AssistantBot.input_error: the wrapper turns a TypeError, KeyError or
\* ValueError of the wrapped call into a message; a result, and any other
\* exception, passes through.
input_error_no_type_error(o) ==
    CASE o.exc = "KeyError" ->
            Return(Str(<<"Sorry, no such command: ">> \o o.err), o.phones)
      [] o.exc = "ValueError" ->
            Return(Str(<<"ValueError: ">> \o o.err), o.phones)
      [] OTHER -> o

input_error(o) ==
    CASE o.exc = "TypeError" ->
            Return(Str(<<"Invalid input, some info is missing: ">> \o o.err), o.phones)
      [] o.exc = "KeyError" ->
            Return(Str(<<"Sorry, no such command: ">> \o o.err), o.phones)
      [] o.exc = "ValueError" ->
            Return(Str(<<"ValueError: ">> \o o.err), o.phones)
      [] OTHER -> o

\* The positional parameters each handler declares after self.
params ==
    [hello |-> <<>>, add |-> <<"name", "phone">>,
     change |-> <<"name", "phone">>, show |-> <<"name">>]

\* The interpreter's TypeError for a call func(*args) whose argument count
\* differs from the declared one.  Only its shape is kept: which function,
\* and whether arguments are missing or in excess.
arity_error(func, args) ==
    IF Len(args) < Len(params[func])
    THEN <<"AssistantBot.", func, "() missing ",
           ToString(Len(params[func]) - Len(args)), " required positional argument(s)">>
    ELSE <<"AssistantBot.", func, "() takes fewer positional arguments than the ",
           ToString(Len(args)), " given">>

\* AssistantBot.hello, under its @input_error.
hello(ph, args) ==
    input_error(IF Len(args) # Len(params.hello)
                THEN Raise("TypeError", arity_error("hello", args), ph)
                ELSE Return(Str(<<"How can I help you?">>), ph))

\* AssistantBot.add, under its @input_error: no return statement, so None.
add(ph, args) ==
    input_error(IF Len(args) # Len(params.add)
                THEN Raise("TypeError", arity_error("add", args), ph)
                ELSE LET o == add_contact(ph, args[1], args[2])
                     IN  IF o.exc = "none" THEN Return(None, o.phones) ELSE o)

\* AssistantBot.change, under its @input_error.
change(ph, args) ==
    input_error(IF Len(args) # Len(params.change)
                THEN Raise("TypeError", arity_error("change", args), ph)
                ELSE LET o == change_contact(ph, args[1], args[2])
                     IN  IF o.exc = "none" THEN Return(None, o.phones) ELSE o)

\* AssistantBot.show, under its @input_error.
show(ph, args) ==
    input_error(IF Len(args) # Len(params.show)
                THEN Raise("TypeError", arity_error("show", args), ph)
                ELSE show_phone(ph, args[1]))

cHELLO == <<"h", "e", "l", "l", "o">>

cADD == <<"a", "d", "d">>

cCHANGE == <<"c", "h", "a", "n", "g", "e">>

cPHONE == <<"p", "h", "o", "n", "e">>

cSHOW == <<"s", "h", "o", "w">>

\* self.commands: command name -> handler.
commands ==
    (cHELLO :> "hello") @@ (cADD :> "add") @@ (cCHANGE :> "change")
    @@ (cPHONE :> "show") @@ (cSHOW :> "show")

\* handler(*args) for the handler the table names.
call(handler, ph, args) ==
    CASE handler = "hello" -> hello(ph, args)
      [] handler = "add" -> add(ph, args)
      [] handler = "change" -> change(ph, args)
      [] handler = "show" -> show(ph, args)

\* AssistantBot.handle, under its @input_error: self.commands[command]
\* raises KeyError(command) for a command that is not in the table.
handle(ph, command, args) ==
    input_error(IF command \notin DOMAIN commands
                THEN Raise("KeyError", repr(command), ph)
                ELSE call(commands[command], ph, args))

\* ------------------------------------------------------------ inputs
\* The names the user may type; the first is the literal `all`.
NameList == << ALL, <<"a", "l">>, <<"b", "o">>, <<"c", "y">> >>

Names == {NameList[i] : i \in 1..(IF NumNames < Len(NameList) THEN NumNames ELSE Len(NameList))}

\* Ten digits, and `+` with twelve digits: phones that pass validation.
P10 == <<"1", "2", "3", "4", "5", "6", "7", "8", "9", "0">>

P12 == <<"+", "1", "2", "3", "4", "5", "6", "7", "8", "9", "0", "1", "2">>

\* Five digits, and `+` with ten digits: phones that do not.
PShort == <<"1", "2", "3", "4", "5">>

PPlus10 == <<"+">> \o P10

Phones == {P10, P12, PShort, PPlus10}

FOO == <<"f", "o", "o">>

GOOD == <<"g", "o", "o", "d">>

BYE == <<"b", "y", "e">>

CLOSE == <<"c", "l", "o", "s", "e">>

EXIT == <<"e", "x", "i", "t">>

\* The words of a line, one space between them.
RECURSIVE join(_)
join(words) ==
    IF words = <<>> THEN <<>>
    ELSE IF Len(words) = 1 THEN words[1]
    ELSE words[1] \o <<" ">> \o join(Tail(words))

\* The lines the user may type, as input() returns them (no newline).
Lines ==
    {<<>>, <<" ">>, <<" ", "\t">>}
    \cup {join(<<c>>) : c \in {cHELLO, cADD, cCHANGE, cPHONE, cSHOW, FOO, GOOD,
                               CLOSE, EXIT, <<"E", "x", "i", "t">>,
                               <<"H", "E", "L", "L", "O">>}}
    \cup {join(<<c, n>>) : c \in {cPHONE, cSHOW}, n \in Names}
    \cup {join(<<c, NameList[2]>>) : c \in {cHELLO, cADD, cCHANGE, FOO, CLOSE}}
    \cup {join(<<c, n, p>>) : c \in {cADD, cCHANGE}, n \in Names, p \in Phones}
    \cup {join(<<GOOD, BYE>>), join(<<<<"G", "o", "o", "d">>, <<"B", "y", "e">>>>),
          join(<<cSHOW, NameList[2], P10>>),
          join(<<<<"A", "D", "D">>, <<"A", "l">>, P10>>),
          <<" ">> \o cSHOW \o <<" ", "\t">> \o ALL \o <<" ">>}

\* Phone strings for verify_phone alone: a prefix, a run of digits, a
\* separator, a second run of digits.
RECURSIVE digit_run(_)
digit_run(n) == IF n = 0 THEN <<>> ELSE <<ToString(n % 10)>> \o digit_run(n - 1)

PhoneInputs ==
    {pre \o digit_run(n) \o mid \o digit_run(m) :
        pre \in {<<>>, <<"+">>, <<"+", "+">>, <<"x">>},
        n \in 0..MaxRun,
        mid \in {<<>>, <<"+">>, <<"x">>, <<" ">>},
        m \in 0..MaxRun}

\* ------------------------------------------------------------ state
VARIABLES
    pc,         \* "input": run waits in input(); "done": it left the loop by
                \* break; "crashed": an exception left run
    exc,        \* the exception that left run, "none" otherwise
    line,       \* the last line input() returned
    command,    \* run's local `command`: the command of the last line parsed
    args,       \* run's local `args`: its arguments
    forwarded,  \* whether that line was passed to bot.handle
    result,     \* what bot.handle returned for it
    out,        \* what the last iteration printed (<<>>: nothing)
    phones,     \* bot.phonebook.phones
    order,      \* history: the names of the successful `add` commands, in order
    stored,     \* history: per name, the phone of the last successful `add`
                \* or `change` of that name (<<>>: none yet)
    phone,      \* the argument of a direct call of verify_phone
    verdict     \* the outcome of that call

vars == <<pc, exc, line, command, args, forwarded, result, out, phones, order, stored, phone, verdict>>

Pending == [exc |-> "pending", err |-> <<>>]

\* AssistantBot() in run: PhoneBook.__init__ makes the store empty.
Init ==
    /\ pc = "input"
    /\ exc = "none"
    /\ line = <<>>
    /\ command = <<>>
    /\ args = <<>>
    /\ forwarded = FALSE
    /\ result = None
    /\ out = <<>>
    /\ phones = <<>>
    /\ order = <<>>
    /\ stored = [n \in Names |-> <<>>]
    /\ phone = <<>>
    /\ verdict = Pending

stop_words == {join(<<GOOD, BYE>>), CLOSE, EXIT}

\* input() finds the input stream at its end: EOFError, which nothing in
\* run catches.
EndOfInput ==
    /\ pc = "input"
    /\ pc' = "crashed"
    /\ exc' = "EOFError"
    /\ forwarded' = FALSE
    /\ result' = None
    /\ out' = <<>>
    /\ UNCHANGED <<line, command, args, phones, order, stored, phone, verdict>>

\* A line without a token: parse_command raises ValueError, which nothing
\* in run catches.
EmptyLine(l) ==
    \E p \in {parse_command(lower(l))} :
        /\ pc = "input"
        /\ p.exc # "none"
        /\ line' = l
        /\ pc' = "crashed"
        /\ exc' = p.exc
        /\ forwarded' = FALSE
        /\ result' = None
        /\ out' = <<>>
        /\ UNCHANGED <<command, args, phones, order, stored, phone, verdict>>

\* The command is one of the stop words: farewell and break.
StopWord(l) ==
    \E p \in {parse_command(lower(l))} :
        /\ pc = "input"
        /\ p.exc = "none"
        /\ p.command \in stop_words
        /\ line' = l
        /\ command' = p.command
        /\ args' = p.args
        /\ pc' = "done"
        /\ exc' = "none"
        /\ forwarded' = FALSE
        /\ result' = None
        /\ out' = <<"Good bye!">>
        /\ UNCHANGED <<phones, order, stored, phone, verdict>>

\* Any other command: bot.handle, and its result printed when truthy; an
\* exception that handle lets through leaves run.
Command(l) ==
    \E p \in {parse_command(lower(l))} :
        /\ pc = "input"
        /\ p.exc = "none"
        /\ p.command \notin stop_words
        /\ \E o \in {handle(phones, p.command, p.args)} :
            /\ line' = l
            /\ command' = p.command
            /\ args' = p.args
            /\ forwarded' = TRUE
            /\ phones' = o.phones
            /\ IF o.exc = "none"
               THEN /\ pc' = "input"
                    /\ exc' = "none"
                    /\ result' = o.ret
                    /\ out' = IF Truthy(o.ret) THEN o.ret.text ELSE <<>>
               ELSE /\ pc' = "crashed"
                    /\ exc' = o.exc
                    /\ result' = None
                    /\ out' = <<>>
            /\ order' = IF p.command = cADD /\ Len(p.args) = 2 /\ o.exc = "none" /\ o.ret.none
                        THEN Append(order, p.args[1])
                        ELSE order
            /\ stored' = IF p.command \in {cADD, cCHANGE} /\ Len(p.args) = 2
                             /\ o.exc = "none" /\ o.ret.none
                          THEN [stored EXCEPT ![p.args[1]] = p.args[2]]
                          ELSE stored
            /\ UNCHANGED <<phone, verdict>>

Next ==
    \/ EndOfInput
    \/ \E l \in Lines : EmptyLine(l)
    \/ \E l \in Lines : StopWord(l)
    \/ \E l \in Lines : Command(l)

Spec == Init /\ [][Next]_vars

\* ------------------------------------------------------------ verify_phone alone
PhoneInit ==
    /\ pc = "input"
    /\ exc = "none"
    /\ line = <<>>
    /\ command = <<>>
    /\ args = <<>>
    /\ forwarded = FALSE
    /\ result = None
    /\ out = <<>>
    /\ phones = <<>>
    /\ order = <<>>
    /\ stored = [n \in Names |-> <<>>]
    /\ phone \in PhoneInputs
    /\ verdict = Pending

CallVerifyPhone ==
    /\ verdict = Pending
    /\ verdict' = verify_phone(phone)
    /\ UNCHANGED <<pc, exc, line, command, args, forwarded, result, out, phones, order, stored, phone>>

PhoneNext == CallVerifyPhone

PhoneSpec == PhoneInit /\ [][PhoneNext]_vars

\* ------------------------------------------------------------ properties
\* The last step read a line (the step was not the end of the input).
LineRead == forwarded \/ pc = "done" \/ (pc = "crashed" /\ exc # "EOFError")

\* s begins with n digits.
HasDigitPrefix(s, n) == Len(s) >= n /\ {s[k] : k \in 1..n} \subseteq Digits

\* 10 digits, or an optional `+` followed by 12 digits, at the beginning of s.
ValidPhone(s) ==
    \/ HasDigitPrefix(s, 10)
    \/ HasDigitPrefix(s, 12)
    \/ (s # <<>> /\ s[1] = "+" /\ HasDigitPrefix(Tail(s), 12))

\* The last line was `add` or `change` with two arguments.
LastIsStore(cmd) ==
    forwarded /\ command = cmd /\ Len(args) = 2

\* The last line was `phone` or `show` with one argument.
LastIsShow ==
    forwarded /\ command \in {cPHONE, cSHOW} /\ Len(args) = 1

StoredNames(ph) == {ph[i].name : i \in 1..Len(ph)}

\* C1: the input loop never ends abnormally: it ends only by a termination
\* command or at the end of the input, whatever the lines were.
C1_LoopEndsOnlyByStopOrEof ==
    pc # "input" => (pc = "done" \/ exc = "EOFError")

\* C2: a line whose lowercased text is `good bye`, `close` or `exit` prints
\* the farewell and ends the loop without reaching the dispatcher; every
\* other non-empty line (a line with a token) is forwarded to the dispatcher
\* and the loop goes on.
C2_StopLinesTerminate ==
    LineRead =>
        IF lower(line) \in {join(<<GOOD, BYE>>), CLOSE, EXIT}
        THEN pc = "done" /\ ~forwarded /\ out = <<"Good bye!">>
        ELSE split(line) # <<>> => (forwarded /\ pc = "input")

\* C3: for every name n, once add or change has stored phone p under n,
\* and until another add or change of n succeeds, show_phone(n) returns p.
C3_ShowReturnsLastStored ==
    \A n \in Names :
        stored[n] # <<>> => show_phone(phones, n) = Return(Str(stored[n]), phones)

\* C4: add with a valid phone and a name already in the store fails with
\* the duplicate-name error and leaves the store as it was.
C4_DuplicateAddFails ==
    [][ (/\ forwarded'
         /\ command' = cADD /\ Len(args') = 2
         /\ ValidPhone(args'[2])
         /\ args'[1] \in StoredNames(phones))
        => (/\ phones' = phones
            /\ result' = Str(<<"ValueError: ">> \o AlreadyMsg)
            /\ pc' = "input") ]_vars

C4_Witness ==
    /\ LastIsStore(cADD)
    /\ ValidPhone(args[2])
    /\ result = Str(<<"ValueError: ">> \o AlreadyMsg)
    /\ \E i \in 1..Len(phones) :
          phones[i].name = args[1] /\ phones[i].phone # args[2]

\* C5: change with a valid phone and a name absent from the store fails
\* with the unknown-name error and leaves the store as it was; the set of
\* stored names grows only by a successful add.
C5_ChangeNeverCreates ==
    [][ /\ (/\ forwarded'
            /\ command' = cCHANGE /\ Len(args') = 2
            /\ ValidPhone(args'[2])
            /\ args'[1] \notin StoredNames(phones))
           => (/\ phones' = phones
               /\ result' = Str(<<"ValueError: ">> \o NotInMsg)
               /\ pc' = "input")
        /\ (StoredNames(phones') # StoredNames(phones))
           => (/\ forwarded'
               /\ command' = cADD /\ Len(args') = 2
               /\ result' = None
               /\ StoredNames(phones') = StoredNames(phones) \cup {args'[1]}) ]_vars

C5_Witness ==
    /\ LastIsStore(cCHANGE)
    /\ ValidPhone(args[2])
    /\ result = Str(<<"ValueError: ">> \o NotInMsg)
    /\ phones # <<>>
    /\ args[1] \notin StoredNames(phones)

\* C6: `phone <name>` or `show <name>` with a name other than `all` that is
\* not in the store gives the missing-name failure, the one change gives for
\* an absent name, and not the unknown-command message.
C6_ShowAbsentIsUnknownName ==
    (LastIsShow /\ args[1] # ALL /\ args[1] \notin StoredNames(phones))
    => (/\ pc = "input"
        /\ result = Str(<<"ValueError: ">> \o NotInMsg)
        /\ result.text[1] # "Sorry, no such command: ")

\* The number of arguments each command's handler requires.
Required ==
    (cHELLO :> 0) @@ (cADD :> 2) @@ (cCHANGE :> 2) @@ (cPHONE :> 1) @@ (cSHOW :> 1)

\* C7: handle never lets a failure through: a command that is not in the
\* table gives the unknown-command message naming it, whatever the
\* arguments; a known command with the wrong number of arguments gives the
\* arity message; the store is unchanged in both cases.
C7_HandleClassifies ==
    [][ forwarded' =>
          /\ pc' = "input" /\ exc' = "none"
          /\ (command' \notin DOMAIN Required)
             => (/\ result' = Str(<<"Sorry, no such command: ", "'">> \o command' \o <<"'">>)
                 /\ phones' = phones)
          /\ (command' \in DOMAIN Required /\ Len(args') # Required[command'])
             => (/\ ~result'.none
                 /\ result'.text[1] = "Invalid input, some info is missing: "
                 /\ Len(result'.text) > 1
                 /\ phones' = phones) ]_vars

C7_Witness ==
    /\ forwarded
    /\ command = cADD /\ Len(args) = 1
    /\ result.text # <<>>
    /\ result.text[1] = "Invalid input, some info is missing: "
    /\ phones # <<>>

\* C8: every phone in the store passes validation and no name is stored
\* twice; an add or change whose phone fails validation leaves the store as
\* it was, whether or not the name is present.
C8_StoreHoldsValidPhones ==
    /\ [](/\ \A i \in 1..Len(phones) : ValidPhone(phones[i].phone)
          /\ \A i, j \in 1..Len(phones) : phones[i].name = phones[j].name => i = j)
    /\ [][ (/\ forwarded'
            /\ command' \in {cADD, cCHANGE} /\ Len(args') = 2
            /\ ~ValidPhone(args'[2]))
           => phones' = phones ]_vars

C8_Witness ==
    /\ LastIsStore(cCHANGE)
    /\ ~ValidPhone(args[2])
    /\ args[1] \in StoredNames(phones)
    /\ result = Str(<<"ValueError: ", "Invalid phone format">>)

\* The listing the claim describes: one line per name of `order`, with the
\* phone last stored under it.
RECURSIVE ExpectedListing(_)
ExpectedListing(i) ==
    IF i > Len(order) THEN <<>>
    ELSE <<"Name: ">> \o order[i] \o <<", phone: ">> \o stored[order[i]] \o <<"\n">>
         \o ExpectedListing(i + 1)

\* C9: show_phone("all") gives the no-contacts message exactly when the
\* store is empty; otherwise one line per contact, each once, with its
\* current phone, in the order of the first insertions.
C9_ListingInInsertionOrder ==
    LET r == show_phone(phones, ALL)
    IN  /\ r.exc = "none" /\ ~r.ret.none
        /\ (r.ret.text = NoContactsMsg) <=> (phones = <<>>)
        /\ (phones = <<>>) <=> (order = <<>>)
        /\ \A i, j \in 1..Len(order) : order[i] = order[j] => i = j
        /\ phones # <<>> => r.ret.text = ExpectedListing(1)
        /\ (LastIsShow /\ args[1] = ALL) => (result = r.ret /\ out = r.ret.text)

C9_Witness ==
    /\ LastIsShow /\ args[1] = ALL
    /\ order = <<NameList[2], NameList[3]>>
    /\ stored[NameList[2]] = P12
    /\ out = <<"Name: ">> \o NameList[2] \o <<", phone: ">> \o P12 \o <<"\n">>
             \o <<"Name: ">> \o NameList[3] \o <<", phone: ">> \o P10 \o <<"\n">>

\* C10: verify_phone accepts exactly the strings that begin with 10 digits
\* or with an optional `+` and 12 digits, and raises the invalid-format
\* error for every other string.
C10_VerifyPhonePrefix ==
    verdict # Pending =>
        IF ValidPhone(phone)
        THEN verdict = [exc |-> "none", err |-> <<>>]
        ELSE verdict = [exc |-> "ValueError", err |-> <<"Invalid phone format">>]

C10_Witness ==
    /\ verdict = [exc |-> "none", err |-> <<>>]
    /\ Len(phone) > 13
    /\ phone[1] = "+"
    /\ \E k \in 1..Len(phone) : phone[k] = "x"

====
